---------------------------- MODULE Spec2Model ----------------------------
(***************************************************************************)
(* GameMNA: the scoring rule and the strategy lookup of DealAnalyzer       *)
(* (deal_analyzer.py) and the render script built on them (app.py).        *)
(*                                                                         *)
(* The two quality scores are Python floats.  They are modelled in         *)
(* hundredths: the integer q stands for the decimal literal q/100, so      *)
(* the thresholds 0.12, 0.3, 0.5 and 0.7 of the code are 12, 30, 50 and 70 *)
(* and an input is compared with a threshold exactly as the code compares  *)
(* the two literals.                                                       *)
(***************************************************************************)
EXTENDS Integers, Sequences, FiniteSets, TLC

(* ------------------------------ bounds -------------------------------- *)

\* direct calls pass num_bidders in (0 - BidderSlack) .. (10 + BidderSlack)
BidderSlack == 2

\* direct calls pass the qualities -0.02 * QualitySlack, ..., 1 + 0.02 * QualitySlack
\* in steps of 0.02
QualitySlack == 5

(* ----------------------- DealAnalyzer.__init__ ------------------------ *)

RISK_THRESHOLD_HIGH == 75

RISK_THRESHOLD_MODERATE == 40

CULTURE_CRITICAL_LIMIT == 12

(* ----------------------- driver and advisory texts -------------------- *)

DriverExtremeCompetition ==
  "Critical Risk: Extreme Competition (>6 Bidders) guarantees Winner's Curse."

DriverHighCompetition ==
  "High Risk: High Competition increases overpayment probability >90%."

DriverStandardCompetition ==
  "Moderate Risk: Standard Competitive Pressure."

DriverOpaqueInformation ==
  "Critical Risk: Opaque Information (Blind Bidding)."

DriverIncompleteInformation ==
  "Moderate Risk: Incomplete Information signals."

\* f-string; the two interpolated numbers are carried in the driver's args
DriverCulturalFitCritical ==
  "Critical Risk: Cultural Fit {cultural_fit} is below the viability threshold ({self.CULTURE_CRITICAL_LIMIT})."

DriverPoorCulturalAlignment ==
  "High Risk: Poor Cultural Alignment suggests synergy leakage."

RecWalkAway ==
  "WALK AWAY. Expected Value is negative due to Winner's Curse or Integration Failure."

RecProceedWithCaution ==
  "PROCEED WITH CAUTION. Require structural protections (e.g., lower bid, earn-outs)."

RecProceed ==
  "PROCEED. Deal fundamentals are sound within game-theoretic bounds."

StrategyPreemptiveRemedies ==
  "STRATEGY: Preemptive Remedies (Subgame Perfect Equilibrium).\nLogic: High competition + High Regulation creates a 'War of Attrition'.\nAction: Offer divestitures (e.g., licensing) immediately to signal cooperation and deter regulatory veto, mimicking Microsoft's 2023 strategy."

StrategyNegotiatedSettlement ==
  "STRATEGY: Negotiated Settlement.\nLogic: With low competition, you are in a bilateral monopoly with the regulator.\nAction: Do not bid aggressively. Focus on 'tit-for-tat' negotiation to clear hurdles."

StrategyAggressiveSealedBid ==
  "STRATEGY: Aggressive Sealed Bid (The 'Bulldozer').\nLogic: Classic Auction Theory applies. Regulatory veto is unlikely.\nAction: Bid high early (Shock & Awe) to signal strength and force rivals to fold, but ensure bid < (True Value - Integration Cost)."

StrategyLowBall ==
  "STRATEGY: Low-Ball / Opportunistic.\nLogic: You have leverage. No external threats exist.\nAction: Bid near the target's reservation price to maximize surplus."

InputError == "Input Error: Define risks correctly."

(* ------------------ DealAnalyzer.calculate_risk_score ----------------- *)

Driver(text, args) == [text |-> text, args |-> args]

Min(a, b) == IF a < b THEN a ELSE b

\* variant: the bands of the Risk Contribution chart (50 from 5 bidders on)
AuctionDynamicsFactor_ChartBands(num_bidders) ==
  IF num_bidders > 4
    THEN [points |-> 50, reasons |-> <<Driver(DriverExtremeCompetition, <<>>)>>]
  ELSE IF num_bidders >= 2
    THEN [points |-> 20, reasons |-> <<Driver(DriverStandardCompetition, <<>>)>>]
  ELSE [points |-> 0, reasons |-> <<>>]

\* 1. Auction Dynamics Factor: points added to score, drivers appended
AuctionDynamicsFactor(num_bidders) ==
  IF num_bidders > 6
    THEN [points |-> 50, reasons |-> <<Driver(DriverExtremeCompetition, <<>>)>>]
  ELSE IF num_bidders > 4
    THEN [points |-> 40, reasons |-> <<Driver(DriverHighCompetition, <<>>)>>]
  ELSE IF num_bidders >= 2
    THEN [points |-> 20, reasons |-> <<Driver(DriverStandardCompetition, <<>>)>>]
  ELSE [points |-> 0, reasons |-> <<>>]

\* variant: the middle band adds its points and appends no driver
InformationAsymmetryFactor_NoDriver(due_diligence_quality) ==
  IF due_diligence_quality < 30
    THEN [points |-> 30, reasons |-> <<Driver(DriverOpaqueInformation, <<>>)>>]
  ELSE IF due_diligence_quality < 70
    THEN [points |-> 15, reasons |-> <<>>]
  ELSE [points |-> 0, reasons |-> <<>>]

\* 2. Information Asymmetry Factor
InformationAsymmetryFactor(due_diligence_quality) ==
  IF due_diligence_quality < 30
    THEN [points |-> 30, reasons |-> <<Driver(DriverOpaqueInformation, <<>>)>>]
  ELSE IF due_diligence_quality < 70
    THEN [points |-> 15, reasons |-> <<Driver(DriverIncompleteInformation, <<>>)>>]
  ELSE [points |-> 0, reasons |-> <<>>]

\* variant: the middle band includes a cultural fit of exactly 0.5
CulturalIntegrationConstraint_InclusiveHalf(cultural_fit) ==
  IF cultural_fit < CULTURE_CRITICAL_LIMIT
    THEN [points |-> 50,
          reasons |-> <<Driver(DriverCulturalFitCritical,
                               <<cultural_fit, CULTURE_CRITICAL_LIMIT>>)>>]
  ELSE IF cultural_fit <= 50
    THEN [points |-> 20, reasons |-> <<Driver(DriverPoorCulturalAlignment, <<>>)>>]
  ELSE [points |-> 0, reasons |-> <<>>]

\* 3. Cultural Integration Constraint
CulturalIntegrationConstraint(cultural_fit) ==
  IF cultural_fit < CULTURE_CRITICAL_LIMIT
    THEN [points |-> 50,
          reasons |-> <<Driver(DriverCulturalFitCritical,
                               <<cultural_fit, CULTURE_CRITICAL_LIMIT>>)>>]
  ELSE IF cultural_fit < 50
    THEN [points |-> 20, reasons |-> <<Driver(DriverPoorCulturalAlignment, <<>>)>>]
  ELSE [points |-> 0, reasons |-> <<>>]

\* variant: the cap is left out
FinalScore_NoCap(score) == score

\* variant: the cap wraps around instead of saturating
FinalScore_Wrap(score) == score % 101

\* Cap score at 100
FinalScore(score) == Min(score, 100)

\* variant: the breakpoints are exclusive
DetermineRecommendation_Exclusive(final_score) ==
  IF final_score > RISK_THRESHOLD_HIGH
    THEN [risk_level |-> "CRITICAL", rec |-> RecWalkAway]
  ELSE IF final_score > RISK_THRESHOLD_MODERATE
    THEN [risk_level |-> "HIGH", rec |-> RecProceedWithCaution]
  ELSE [risk_level |-> "LOW", rec |-> RecProceed]

\* Determine Recommendation
DetermineRecommendation(final_score) ==
  IF final_score >= RISK_THRESHOLD_HIGH
    THEN [risk_level |-> "CRITICAL", rec |-> RecWalkAway]
  ELSE IF final_score >= RISK_THRESHOLD_MODERATE
    THEN [risk_level |-> "HIGH", rec |-> RecProceedWithCaution]
  ELSE [risk_level |-> "LOW", rec |-> RecProceed]

calculate_risk_score(num_bidders, due_diligence_quality, cultural_fit) ==
  LET auction == AuctionDynamicsFactor(num_bidders)
      info    == InformationAsymmetryFactor(due_diligence_quality)
      culture == CulturalIntegrationConstraint(cultural_fit)
      score   == 0 + auction.points + info.points + culture.points
      reasons == <<>> \o auction.reasons \o info.reasons \o culture.reasons
      final_score == FinalScore(score)
      verdict == DetermineRecommendation(final_score)
  IN  [score          |-> final_score,
       risk_level     |-> verdict.risk_level,
       recommendation |-> verdict.rec,
       drivers        |-> reasons]

(* ------------------- DealAnalyzer.recommend_strategy ------------------ *)

\* variant: the two branches under low regulatory risk are exchanged
recommend_strategy_Exchanged(regulatory_risk, competition_level) ==
  IF regulatory_risk = "High"
    THEN IF competition_level = "High"
           THEN StrategyPreemptiveRemedies
           ELSE StrategyNegotiatedSettlement
  ELSE IF regulatory_risk = "Low"
    THEN IF competition_level = "High"
           THEN StrategyLowBall
           ELSE StrategyAggressiveSealedBid
  ELSE InputError

recommend_strategy(regulatory_risk, competition_level) ==
  IF regulatory_risk = "High"
    THEN IF competition_level = "High"
           THEN StrategyPreemptiveRemedies
           ELSE StrategyNegotiatedSettlement
  ELSE IF regulatory_risk = "Low"
    THEN IF competition_level = "High"
           THEN StrategyAggressiveSealedBid
           ELSE StrategyLowBall
  ELSE InputError

(* ------------------------------- app.py ------------------------------- *)

\* st.slider("Number of Bidders (N)", min_value=1, max_value=10)
SliderMin == 1

SliderMax == 10

dd_options == {"Low", "Medium", "High"}

dd_mapping == [l \in dd_options |->
                 IF l = "Low" THEN 0 ELSE IF l = "Medium" THEN 50 ELSE 100]

culture_options == {"Friction (Low)", "Neutral", "Synergy (High)"}

\* variant: the labels are mapped to 0.0, 0.25 and 0.5
culture_mapping_Quarters == [l \in culture_options |->
                               IF l = "Friction (Low)" THEN 0
                               ELSE IF l = "Neutral" THEN 25 ELSE 50]

culture_mapping == [l \in culture_options |->
                      IF l = "Friction (Low)" THEN 0
                      ELSE IF l = "Neutral" THEN 50 ELSE 100]

\* st.selectbox("Regulatory Scrutiny", ...), st.selectbox("Competition Intensity", ...)
selectbox_options == {"Low", "High"}

\* Dynamic Metric Color Logic
ScoreColor(score_val) == IF score_val > 75 THEN "inverse" ELSE "normal"

\* st.error / st.warning / st.success around the recommendation
RecommendationBox(score_val) ==
  IF score_val >= 75 THEN "error"
  ELSE IF score_val >= 40 THEN "warning"
  ELSE "success"

\* the driver texts in which the word occurs (the interpolated numbers add none)
ContainsCritical(driver) ==
  driver.text \in {DriverExtremeCompetition, DriverOpaqueInformation,
                   DriverCulturalFitCritical}

ContainsHigh(driver) ==
  driver.text \in {DriverHighCompetition, DriverPoorCulturalAlignment}

DriverBox(driver) ==
  IF ContainsCritical(driver) THEN "error"
  ELSE IF ContainsHigh(driver) THEN "warning"
  ELSE "info"

\* Key Risk Drivers: one st.info when there is no driver, else one box per driver
KeyRiskDrivers(drivers) ==
  IF drivers = <<>> THEN <<"info">>
  ELSE [i \in 1..Len(drivers) |-> DriverBox(drivers[i])]

\* Risk Contribution chart: the three per-factor points
ChartAuctionDynamics(n) ==
  IF n > 4 THEN 50 ELSE IF n >= 2 THEN 20 ELSE 0

ChartInfoAsymmetry(dd) ==
  IF dd < 30 THEN 30 ELSE IF dd < 70 THEN 15 ELSE 0

ChartCulturalConstraints(cf) ==
  IF cf < 12 THEN 50 ELSE IF cf < 50 THEN 20 ELSE 0

RiskData(n, dd, cf) ==
  [AuctionDynamics     |-> ChartAuctionDynamics(n),
   InfoAsymmetry       |-> ChartInfoAsymmetry(dd),
   CulturalConstraints |-> ChartCulturalConstraints(cf)]

\* the interpolated fields of the downloadable briefing, in their order
ReportText(report, strategy) ==
  <<report.score, report.risk_level, report.recommendation, strategy,
    report.drivers>>

(* ---------------------------- state machine --------------------------- *)

VARIABLES
  entry,                  \* what runs: one of the two methods, or the app script
  pc,                     \* position of the run
  num_bidders,            \* argument of calculate_risk_score / the slider's value
  due_diligence_quality,  \* argument of a direct call of calculate_risk_score
  cultural_fit,           \* argument of a direct call of calculate_risk_score
  regulatory_risk,        \* argument of a direct call of recommend_strategy
  competition_level,      \* argument of a direct call of recommend_strategy
  dd_label,               \* app.py: select_slider value
  due_diligence,          \* app.py: dd_mapping[dd_label]
  culture_label,          \* app.py: select_slider value
  culture_fit,            \* app.py: culture_mapping[culture_label]
  reg_risk,               \* app.py: selectbox value
  comp_level,             \* app.py: selectbox value
  risk_report,            \* result of calculate_risk_score
  strategy_rec,           \* result of recommend_strategy
  score_color,            \* app.py: delta_color of the score metric
  rec_box,                \* app.py: box the recommendation is shown in
  driver_boxes,           \* app.py: boxes of the Key Risk Drivers section
  risk_data,              \* app.py: points of the Risk Contribution chart
  report_text             \* app.py: briefing handed to the download button

vars == <<entry, pc, num_bidders, due_diligence_quality, cultural_fit,
          regulatory_risk, competition_level, dd_label, due_diligence,
          culture_label, culture_fit, reg_risk, comp_level, risk_report,
          strategy_rec, score_color, rec_box, driver_boxes, risk_data,
          report_text>>

\* values of what a run has not assigned yet
NoReport == [score |-> 0, risk_level |-> "", recommendation |-> "", drivers |-> <<>>]

NoRiskData == [AuctionDynamics |-> 0, InfoAsymmetry |-> 0, CulturalConstraints |-> 0]

\* arguments a direct caller may pass: the documented ranges and beyond them
BidderArgs == (0 - BidderSlack) .. (SliderMax + BidderSlack)

QualityArgs == {2 * k : k \in (0 - QualitySlack) .. (50 + QualitySlack)}

\* tags a direct caller may pass to recommend_strategy
TagArgs == {"Low", "High", "Medium", "low", "high", "LOW", "HIGH", ""}

Unassigned ==
  /\ risk_report = NoReport
  /\ strategy_rec = ""
  /\ due_diligence = 0
  /\ culture_fit = 0
  /\ score_color = ""
  /\ rec_box = ""
  /\ driver_boxes = <<>>
  /\ risk_data = NoRiskData
  /\ report_text = <<>>

InitCalculateRiskScore ==
  /\ entry = "calculate_risk_score"
  /\ pc = "call"
  /\ num_bidders \in BidderArgs
  /\ due_diligence_quality \in QualityArgs
  /\ cultural_fit \in QualityArgs
  /\ regulatory_risk = "" /\ competition_level = ""
  /\ dd_label = "" /\ culture_label = "" /\ reg_risk = "" /\ comp_level = ""
  /\ Unassigned

InitRecommendStrategy ==
  /\ entry = "recommend_strategy"
  /\ pc = "call"
  /\ regulatory_risk \in TagArgs
  /\ competition_level \in TagArgs
  /\ num_bidders = 0 /\ due_diligence_quality = 0 /\ cultural_fit = 0
  /\ dd_label = "" /\ culture_label = "" /\ reg_risk = "" /\ comp_level = ""
  /\ Unassigned

\* one run of the app script: the widgets hold what the user has set
InitApp ==
  /\ entry = "app"
  /\ pc = "sidebar"
  /\ num_bidders \in SliderMin .. SliderMax
  /\ dd_label \in dd_options
  /\ culture_label \in culture_options
  /\ reg_risk \in selectbox_options
  /\ comp_level \in selectbox_options
  /\ due_diligence_quality = 0 /\ cultural_fit = 0
  /\ regulatory_risk = "" /\ competition_level = ""
  /\ Unassigned

Init == InitCalculateRiskScore \/ InitRecommendStrategy \/ InitApp

CallCalculateRiskScore ==
  /\ entry = "calculate_risk_score" /\ pc = "call"
  /\ risk_report' = calculate_risk_score(num_bidders, due_diligence_quality,
                                         cultural_fit)
  /\ pc' = "done"
  /\ UNCHANGED <<entry, num_bidders, due_diligence_quality, cultural_fit,
                 regulatory_risk, competition_level, dd_label, due_diligence,
                 culture_label, culture_fit, reg_risk, comp_level, strategy_rec,
                 score_color, rec_box, driver_boxes, risk_data, report_text>>

CallRecommendStrategy ==
  /\ entry = "recommend_strategy" /\ pc = "call"
  /\ strategy_rec' = recommend_strategy(regulatory_risk, competition_level)
  /\ pc' = "done"
  /\ UNCHANGED <<entry, num_bidders, due_diligence_quality, cultural_fit,
                 regulatory_risk, competition_level, dd_label, due_diligence,
                 culture_label, culture_fit, reg_risk, comp_level, risk_report,
                 score_color, rec_box, driver_boxes, risk_data, report_text>>

\* SIDEBAR: INPUTS
Sidebar ==
  /\ entry = "app" /\ pc = "sidebar"
  /\ due_diligence' = dd_mapping[dd_label]
  /\ culture_fit' = culture_mapping[culture_label]
  /\ pc' = "execution"
  /\ UNCHANGED <<entry, num_bidders, due_diligence_quality, cultural_fit,
                 regulatory_risk, competition_level, dd_label, culture_label,
                 reg_risk, comp_level, risk_report, strategy_rec, score_color,
                 rec_box, driver_boxes, risk_data, report_text>>

\* EXECUTION
Execution ==
  /\ entry = "app" /\ pc = "execution"
  /\ risk_report' = calculate_risk_score(num_bidders, due_diligence, culture_fit)
  /\ strategy_rec' = recommend_strategy(reg_risk, comp_level)
  /\ pc' = "executive_summary"
  /\ UNCHANGED <<entry, num_bidders, due_diligence_quality, cultural_fit,
                 regulatory_risk, competition_level, dd_label, due_diligence,
                 culture_label, culture_fit, reg_risk, comp_level, score_color,
                 rec_box, driver_boxes, risk_data, report_text>>

\* SECTION 1: EXECUTIVE SUMMARY
ExecutiveSummary ==
  /\ entry = "app" /\ pc = "executive_summary"
  /\ score_color' = ScoreColor(risk_report.score)
  /\ rec_box' = RecommendationBox(risk_report.score)
  /\ pc' = "deep_dive"
  /\ UNCHANGED <<entry, num_bidders, due_diligence_quality, cultural_fit,
                 regulatory_risk, competition_level, dd_label, due_diligence,
                 culture_label, culture_fit, reg_risk, comp_level, risk_report,
                 strategy_rec, driver_boxes, risk_data, report_text>>

\* SECTION 2: DEEP DIVE (Drivers & Data)
DeepDive ==
  /\ entry = "app" /\ pc = "deep_dive"
  /\ driver_boxes' = KeyRiskDrivers(risk_report.drivers)
  /\ risk_data' = RiskData(num_bidders, due_diligence, culture_fit)
  /\ pc' = "strategy_report"
  /\ UNCHANGED <<entry, num_bidders, due_diligence_quality, cultural_fit,
                 regulatory_risk, competition_level, dd_label, due_diligence,
                 culture_label, culture_fit, reg_risk, comp_level, risk_report,
                 strategy_rec, score_color, rec_box, report_text>>

\* SECTION 3: STRATEGY & REPORT
StrategyAndReport ==
  /\ entry = "app" /\ pc = "strategy_report"
  /\ report_text' = ReportText(risk_report, strategy_rec)
  /\ pc' = "done"
  /\ UNCHANGED <<entry, num_bidders, due_diligence_quality, cultural_fit,
                 regulatory_risk, competition_level, dd_label, due_diligence,
                 culture_label, culture_fit, reg_risk, comp_level, risk_report,
                 strategy_rec, score_color, rec_box, driver_boxes, risk_data>>

Next ==
  \/ CallCalculateRiskScore
  \/ CallRecommendStrategy
  \/ Sidebar
  \/ Execution
  \/ ExecutiveSummary
  \/ DeepDive
  \/ StrategyAndReport

Spec == Init /\ [][Next]_vars

(* ------------------------- observing the runs ------------------------- *)

\* a direct call of calculate_risk_score has returned
ScoreCallDone == entry = "calculate_risk_score" /\ pc = "done"

\* a direct call of recommend_strategy has returned
StrategyCallDone == entry = "recommend_strategy" /\ pc = "done"

\* the app script has passed its EXECUTION section
AppExecuted == entry = "app" /\ pc \notin {"sidebar", "execution"}

\* the app script has rendered its executive summary
AppSummaryShown == entry = "app" /\ pc \in {"deep_dive", "strategy_report", "done"}

\* the app script has drawn its Risk Contribution chart
AppChartDrawn == entry = "app" /\ pc \in {"strategy_report", "done"}

\* risk_report holds the report of a call, made directly or by the app
ReportReturned == ScoreCallDone \/ AppExecuted

\* the arguments that call was made with
ArgBidders == num_bidders

ArgDueDiligence == IF entry = "app" THEN due_diligence ELSE due_diligence_quality

ArgCulturalFit == IF entry = "app" THEN culture_fit ELSE cultural_fit

ValidTags == {"Low", "High"}

Advisories == {StrategyPreemptiveRemedies, StrategyNegotiatedSettlement,
               StrategyAggressiveSealedBid, StrategyLowBall}

(* -------------------------------- claims ------------------------------ *)

\* C1: recommend_strategy returns the input-error result whenever either
\* argument is a value other than the exact tokens "Low" or "High"; it never
\* returns one of the four valid advisories for such an input.
C1_InvalidTagYieldsInputError ==
  (StrategyCallDone /\ (regulatory_risk \notin ValidTags
                        \/ competition_level \notin ValidTags))
    => (strategy_rec = InputError /\ strategy_rec \notin Advisories)

\* C2 as stated: calculate_risk_score(4, 0.5, 0.5) yields the contributions
\* 20, 15 and 20, hence score 55, level HIGH, the PROCEED WITH CAUTION
\* recommendation and exactly 3 drivers.
C2_ScenarioA_AsStated ==
  (ScoreCallDone /\ num_bidders = 4 /\ due_diligence_quality = 50
                 /\ cultural_fit = 50)
    => /\ risk_report.score = 55
       /\ risk_report.risk_level = "HIGH"
       /\ risk_report.recommendation = RecProceedWithCaution
       /\ Len(risk_report.drivers) = 3

\* C2 amended: calculate_risk_score(4, 0.5, 0.5) yields the contributions
\* 20, 15 and 0 (a cultural fit of exactly 0.5 adds nothing), hence score 35,
\* level LOW, the PROCEED recommendation and exactly 2 drivers, the auction
\* driver and the information driver.
C2_ScenarioA ==
  (ScoreCallDone /\ num_bidders = 4 /\ due_diligence_quality = 50
                 /\ cultural_fit = 50)
    => /\ risk_report.score = 35
       /\ risk_report.risk_level = "LOW"
       /\ risk_report.recommendation = RecProceed
       /\ Len(risk_report.drivers) = 2
       /\ risk_report.drivers[1].text = DriverStandardCompetition
       /\ risk_report.drivers[2].text = DriverIncompleteInformation

C2_Witness ==
  /\ ScoreCallDone
  /\ num_bidders = 4 /\ due_diligence_quality = 50 /\ cultural_fit = 50
  /\ risk_report.score = 35

\* C3: for every numeric input triple, inside the documented ranges and
\* outside them, calculate_risk_score returns a report whose score is an
\* integer with 0 <= score <= 100.
C3_ScoreInRange ==
  /\ (entry = "calculate_risk_score" /\ pc = "call") => ENABLED CallCalculateRiskScore
  /\ ReportReturned => (risk_report.score \in Int /\ risk_report.score >= 0
                        /\ risk_report.score <= 100)

\* out-of-range arguments whose three contributions add up to more than 100
C3_Witness ==
  /\ ScoreCallDone
  /\ num_bidders > SliderMax /\ due_diligence_quality < 0 /\ cultural_fit < 0
  /\ risk_report.score = 100

\* C4: risk_level and recommendation are determined by the clamped score
\* alone with inclusive lower breakpoints: score >= 75 gives CRITICAL and
\* WALK AWAY, 40 <= score < 75 gives HIGH and PROCEED WITH CAUTION, score < 40
\* gives LOW and PROCEED; no other level is ever returned.
C4_LevelFromScore ==
  ReportReturned =>
    /\ risk_report.risk_level \in {"LOW", "HIGH", "CRITICAL"}
    /\ (risk_report.score >= 75 <=> risk_report.risk_level = "CRITICAL")
    /\ ((risk_report.score >= 40 /\ risk_report.score < 75)
          <=> risk_report.risk_level = "HIGH")
    /\ (risk_report.score < 40 <=> risk_report.risk_level = "LOW")
    /\ (risk_report.risk_level = "CRITICAL"
          <=> risk_report.recommendation = RecWalkAway)
    /\ (risk_report.risk_level = "HIGH"
          <=> risk_report.recommendation = RecProceedWithCaution)
    /\ (risk_report.risk_level = "LOW"
          <=> risk_report.recommendation = RecProceed)

\* a report whose score sits on the upper breakpoint
C4_Witness ==
  ScoreCallDone /\ risk_report.score = 75 /\ risk_report.risk_level = "CRITICAL"

\* the band tables of C5, written as the claim writes them
C5_A(n) ==
  CASE n < 2 -> 0
    [] n \in 2..4 -> 20
    [] n \in 5..6 -> 40
    [] n > 6 -> 50

C5_I(q) ==
  CASE q < 30 -> 30
    [] q >= 30 /\ q < 70 -> 15
    [] q >= 70 -> 0

C5_C(f) ==
  CASE f < 12 -> 50
    [] f >= 12 /\ f < 50 -> 20
    [] f >= 50 -> 0

\* C5: the score equals min(100, A + I + C) with A = 0 / 20 / 40 / 50 for
\* num_bidders < 2 / 2..4 / 5..6 / > 6, I = 30 / 15 / 0 for due diligence
\* < 0.3 / [0.3, 0.7) / >= 0.7 and C = 50 / 20 / 0 for cultural fit
\* < 0.12 / [0.12, 0.5) / >= 0.5.
C5_ScoreIsClampedSum ==
  ReportReturned =>
    LET sum == C5_A(ArgBidders) + C5_I(ArgDueDiligence) + C5_C(ArgCulturalFit)
    IN  risk_report.score = (IF sum > 100 THEN 100 ELSE sum)

\* all three arguments on a boundary of their tables
C5_Witness ==
  /\ ScoreCallDone
  /\ num_bidders = 5 /\ due_diligence_quality = 30 /\ cultural_fit = 12
  /\ risk_report.score = 75

\* the texts of the drivers C6 expects, factor by factor, in the order
\* auction, information, cultural
C6_AuctionDriver(n) ==
  IF n < 2 THEN <<>>
  ELSE IF n <= 4 THEN <<DriverStandardCompetition>>
  ELSE IF n <= 6 THEN <<DriverHighCompetition>>
  ELSE <<DriverExtremeCompetition>>

C6_InformationDriver(q) ==
  IF q >= 70 THEN <<>>
  ELSE IF q >= 30 THEN <<DriverIncompleteInformation>>
  ELSE <<DriverOpaqueInformation>>

C6_CulturalDriver(f) ==
  IF f >= 50 THEN <<>>
  ELSE IF f >= 12 THEN <<DriverPoorCulturalAlignment>>
  ELSE <<DriverCulturalFitCritical>>

\* C6: the drivers list is empty if and only if none of the three factors
\* contributes risk (num_bidders < 2, due diligence >= 0.7 and cultural fit
\* >= 0.5), equivalently if and only if score = 0; otherwise it holds one
\* driver per triggered factor, in the order auction, information, cultural.
C6_DriversMatchFactors ==
  ReportReturned =>
    LET drivers  == risk_report.drivers
        expected == C6_AuctionDriver(ArgBidders)
                      \o C6_InformationDriver(ArgDueDiligence)
                      \o C6_CulturalDriver(ArgCulturalFit)
    IN  /\ (drivers = <<>>) <=> (ArgBidders < 2 /\ ArgDueDiligence >= 70
                                 /\ ArgCulturalFit >= 50)
        /\ (drivers = <<>>) <=> (risk_report.score = 0)
        /\ Len(drivers) = Len(expected)
        /\ \A i \in 1..Len(drivers) : drivers[i].text = expected[i]

\* all three factors triggered, the cultural one in its middle band
C6_Witness ==
  /\ ScoreCallDone
  /\ Len(risk_report.drivers) = 3
  /\ risk_report.drivers[3].text = DriverPoorCulturalAlignment

\* C7: the score is monotone in each risk factor with the other two held
\* fixed: raising num_bidders never lowers the score, and raising
\* due_diligence_quality or raising cultural_fit never raises it, also when
\* the unclamped sum exceeds 100.
C7_ScoreMonotone ==
  ScoreCallDone =>
    /\ \A n \in BidderArgs :
         n >= num_bidders =>
           calculate_risk_score(n, due_diligence_quality, cultural_fit).score
             >= risk_report.score
    /\ \A q \in QualityArgs :
         q >= due_diligence_quality =>
           calculate_risk_score(num_bidders, q, cultural_fit).score
             <= risk_report.score
    /\ \A f \in QualityArgs :
         f >= cultural_fit =>
           calculate_risk_score(num_bidders, due_diligence_quality, f).score
             <= risk_report.score

\* a call whose score is at the cap and stays there when a factor is raised
C7_Witness ==
  /\ ScoreCallDone
  /\ num_bidders = 4 /\ due_diligence_quality < 30 /\ cultural_fit < 12
  /\ risk_report.score = 100
  /\ calculate_risk_score(num_bidders + 1, due_diligence_quality,
                          cultural_fit).score = 100

\* the four rows of the decision table of C8
C8_Row(r, c) ==
  CASE r = "High" /\ c = "High" -> StrategyPreemptiveRemedies
    [] r = "High" /\ c = "Low"  -> StrategyNegotiatedSettlement
    [] r = "Low"  /\ c = "High" -> StrategyAggressiveSealedBid
    [] r = "Low"  /\ c = "Low"  -> StrategyLowBall

\* C8: for each of the four valid pairs recommend_strategy returns the
\* advisory of the matching table row; the four advisories are pairwise
\* distinct and none of them equals the input-error result.
C8_DecisionTable ==
  /\ (StrategyCallDone /\ regulatory_risk \in ValidTags
                       /\ competition_level \in ValidTags)
       => (/\ strategy_rec = C8_Row(regulatory_risk, competition_level)
           /\ strategy_rec # InputError
           /\ \A r \in ValidTags, c \in ValidTags :
                (r # regulatory_risk \/ c # competition_level)
                  => recommend_strategy(r, c) # strategy_rec)
  /\ AppExecuted => strategy_rec = C8_Row(reg_risk, comp_level)

C8_Witness ==
  /\ StrategyCallDone
  /\ regulatory_risk = "Low" /\ competition_level = "High"
  /\ strategy_rec = StrategyAggressiveSealedBid

\* C9: for every configuration the sidebar can produce, the three points of
\* the Risk Contribution chart equal the three contributions
\* calculate_risk_score added into the score for the same inputs, so that
\* min(100, sum of the chart points) equals the displayed risk score.
C9_ChartMatchesScore ==
  AppChartDrawn =>
    /\ risk_data.AuctionDynamics = AuctionDynamicsFactor(num_bidders).points
    /\ risk_data.InfoAsymmetry = InformationAsymmetryFactor(due_diligence).points
    /\ risk_data.CulturalConstraints
         = CulturalIntegrationConstraint(culture_fit).points
    /\ Min(100, risk_data.AuctionDynamics + risk_data.InfoAsymmetry
                  + risk_data.CulturalConstraints) = risk_report.score

\* C10: for every configuration the sidebar can produce, the score metric is
\* coloured "inverse" exactly when the risk level is CRITICAL and the
\* recommendation is shown in the error style; no render has the two
\* severity indications disagree.
C10_SeverityIndicationsAgree ==
  AppSummaryShown =>
    /\ (score_color = "inverse") <=> (risk_report.risk_level = "CRITICAL")
    /\ (score_color = "inverse") <=> (rec_box = "error")

C10_Witness ==
  /\ AppSummaryShown
  /\ score_color = "inverse"
  /\ rec_box = "error"
  /\ risk_report.risk_level = "CRITICAL"

=============================================================================
